---- MODULE Spec2Model ----
(***************************************************************************)
(* Job control of the ca$h shell (src/cash.c): the job table, the SIGCHLD  *)
(* handler, the launcher of single commands and two-stage pipelines, the   *)
(* foreground wait and the main loop, together with the kernel objects     *)
(* they act on (child processes, process groups, the terminal's foreground *)
(* group).                                                                 *)
(***************************************************************************)
EXTENDS Integers, FiniteSets, Sequences, TLC

\* ----------------------------------------------------------------- bounds
MaxProcs == 2        \* child pids the kernel hands out (recycled once free)
MaxJid   == 2        \* add_job is not called once next_jid exceeds this
MAX_JOBS == 2        \* capacity of job_list (32 in the source)
MaxPieces == 5       \* pieces a line entered at the prompt is made of

\* ------------------------------------------------------------ constants
cash_pgid == 1                       \* the shell's own process group
Pids      == 2..(MaxProcs + 1)       \* pids of children
Slots     == 1..MAX_JOBS
NULL      == "NULL"
READ_END  == "READ_END"              \* the two descriptors pipe() returns
WRITE_END == "WRITE_END"
HistoryPath == "~/.cash_history"
CmdSingle == "sleep 10"
CmdPipe   == "ls | wc"

JOB_STATE_INVALID == "INVALID"
JOB_STATE_RUNNING == "RUNNING"
JOB_STATE_STOPPED == "STOPPED"

VARIABLES
  shell_is_interactive, \* isatty(terminal_fd) at start-up
  job_list,             \* job_t job_list[MAX_JOBS]
  next_jid,             \* int next_jid
  tty_pgrp,             \* the terminal's foreground process group
  procs,                \* the shell's children, by pid
  pc,                   \* position of the main thread
  background,           \* execute_*: the line ended in &
  pid1, pid2,           \* execute_*: pids returned by fork (0: none)
  child_pgid,           \* execute_*: child_pgid / pipeline_pgid
  fg_slot,              \* the job_t* handed to put_job_in_foreground:
                        \*   0 = the transient fg_job, s = &job_list[s]
  fg_job,               \* the transient job_t of a foreground launch
  printed,              \* lines printed by the latest check_jobs_status
  members,              \* history: per slot, the pids of the job registered
                        \*   there last that have not been reaped yet
  tty_lent,             \* history: the current line handed the terminal to a job
  shell_fds,            \* pipe descriptors open in the shell process
  kids,                 \* per child still in the shell's code: the branch it
                        \*   runs and the pipe descriptors it inherited
  line_read,            \* main: the line readline returned
  res,                  \* what execute_pipeline made of the line
  history_filepath,     \* main: get_history_filepath(), or NULL
  history_saved         \* write_history(history_filepath) has been called

line_vars == << line_read, res, history_filepath, history_saved >>

vars == << shell_is_interactive, job_list, next_jid, tty_pgrp, procs, pc,
           background, pid1, pid2, child_pgid, fg_slot, fg_job, printed,
           members, tty_lent, shell_fds, kids, line_vars >>

\* ------------------------------------------------------------- job table
EmptyJob == [jid |-> 0, pgid |-> 0, state |-> JOB_STATE_INVALID,
             command |-> NULL, notified |-> FALSE]

\* init_jobs: every slot INVALID with a NULL command (the array is static)
init_jobs == [s \in Slots |-> EmptyJob]

Min(S) == CHOOSE x \in S : \A y \in S : x <= y

\* find_free_job_slot: lowest INVALID slot, or -1
find_free_job_slot(jl) ==
  LET F == {s \in Slots : jl[s].state = JOB_STATE_INVALID}
  IN  IF F = {} THEN -1 ELSE Min(F)

\* find_job_slot_by_jid: lowest non-INVALID slot with that jid, or -1
find_job_slot_by_jid(jl, jid) ==
  LET F == {s \in Slots : jl[s].state # JOB_STATE_INVALID /\ jl[s].jid = jid}
  IN  IF F = {} THEN -1 ELSE Min(F)

\* find_job_slot_by_pgid: lowest non-INVALID slot with that pgid, or -1
find_job_slot_by_pgid(jl, pgid) ==
  LET F == {s \in Slots : jl[s].state # JOB_STATE_INVALID /\ jl[s].pgid = pgid}
  IN  IF F = {} THEN -1 ELSE Min(F)

\* a counter that is not advanced
next_jid_stuck(nj) == nj

\* next_jid++ (line 118): the counter afterwards
next_jid_incr(nj) == nj + 1

\* add_job: the table after the call and the value returned
\* (strdup_ok: whether strdup of the command text succeeds)
add_job(jl, nj, pgid, cmd, state, strdup_ok) ==
  IF pgid <= 0 THEN [jl |-> jl, nj |-> nj, ret |-> -1]
  ELSE LET slot == find_free_job_slot(jl) IN
       IF slot = -1 THEN [jl |-> jl, nj |-> nj, ret |-> -1]
       ELSE IF strdup_ok
            THEN [jl  |-> [jl EXCEPT ![slot] =
                             [jid |-> nj, pgid |-> pgid, state |-> state,
                              command |-> cmd,
                              notified |-> (state = JOB_STATE_RUNNING)]],
                  nj  |-> next_jid_incr(nj),
                  ret |-> nj]
            ELSE [jl  |-> [jl EXCEPT ![slot] =
                             [jid |-> nj, pgid |-> pgid,
                              state |-> JOB_STATE_INVALID,
                              command |-> NULL,
                              notified |-> (state = JOB_STATE_RUNNING)]],
                  nj  |-> next_jid_incr(nj),
                  ret |-> -1]

\* remove_job_by_pgid: frees the command and clears the slot, if found
remove_job_by_pgid(jl, pgid) ==
  LET slot == find_job_slot_by_pgid(jl, pgid) IN
  IF slot = -1 THEN jl ELSE [jl EXCEPT ![slot] = EmptyJob]

\* a drain that reports a stop without recording that it did
DrainSlot_unrecorded(j) ==
  IF j.state = JOB_STATE_INVALID /\ j.command # NULL /\ ~j.notified
  THEN [j EXCEPT !.command = NULL, !.notified = TRUE, !.jid = 0, !.pgid = 0]
  ELSE j

\* check_jobs_status, one slot: the slot afterwards
DrainSlot(j) ==
  IF j.state = JOB_STATE_INVALID /\ j.command # NULL /\ ~j.notified
  THEN [j EXCEPT !.command = NULL, !.notified = TRUE, !.jid = 0, !.pgid = 0]
  ELSE IF j.state = JOB_STATE_STOPPED /\ ~j.notified
       THEN [j EXCEPT !.notified = TRUE]
       ELSE j

\* check_jobs_status, one slot: the line printed (<<>> if none)
DrainLine(j) ==
  IF j.state = JOB_STATE_INVALID /\ j.command # NULL /\ ~j.notified
  THEN << <<"Done", j.jid, j.command>> >>
  ELSE IF j.state = JOB_STATE_STOPPED /\ ~j.notified
       THEN << <<"Stopped", j.jid, j.command>> >>
       ELSE << >>

RECURSIVE DrainLines(_, _)
DrainLines(jl, s) ==
  IF s > MAX_JOBS THEN << >> ELSE DrainLine(jl[s]) \o DrainLines(jl, s + 1)

\* check_jobs_status: the table afterwards
check_jobs_status(jl) == [s \in Slots |-> DrainSlot(jl[s])]

\* ------------------------------------------------------------- processes
\* st: free | pre (forked, still running the shell's code) | run (exec'ed) |
\*     stop (stopped) | zombie (terminated, not yet waited for)
\* rep: the stop has been reported to a waitpid; tgt: group a "pre" child sets
FreeProc == [st |-> "free", rep |-> FALSE, pgid |-> 0, tgt |-> 0]

Exists(pr, p) == p \in Pids /\ pr[p].st # "free"

GroupExists(pr, g) == g = cash_pgid \/ \E p \in Pids : Exists(pr, p) /\ pr[p].pgid = g

\* getpgid(pid): -1 (ESRCH) once the pid has been reaped
getpgid(pr, p) == IF Exists(pr, p) THEN pr[p].pgid ELSE -1

\* pids fork may return: in use neither as a pid nor as a group id
FreePids(pr) == {p \in Pids : ~Exists(pr, p) /\ ~GroupExists(pr, p)}

\* children whose status a waitpid(.., WUNTRACED) would return
Zombies(pr)    == {p \in Pids : pr[p].st = "zombie"}
NewStops(pr)   == {p \in Pids : pr[p].st = "stop" /\ ~pr[p].rep}
Reportable(pr) == Zombies(pr) \cup NewStops(pr)

\* kill(-g, SIGCONT)
Continue(pr, g) ==
  [p \in Pids |-> IF pr[p].st = "stop" /\ pr[p].pgid = g
                  THEN [pr[p] EXCEPT !.st = "run", !.rep = FALSE] ELSE pr[p]]

\* kill(-g, SIGKILL)
KillGroup(pr, g) ==
  [p \in Pids |-> IF Exists(pr, p) /\ pr[p].pgid = g
                  THEN [pr[p] EXCEPT !.st = "zombie", !.rep = FALSE, !.tgt = 0]
                  ELSE pr[p]]

\* kill(-g, sig) finds a process to signal
HasProcess(pr, g) == \E p \in Pids : Exists(pr, p) /\ pr[p].pgid = g

\* history: forget a reaped pid
Forget(mb, p) == [s \in Slots |-> mb[s] \ {p}]

\* ----------------------------------------------------------- descriptors
\* a child that has left the shell's code (or no child)
NoKid == [code |-> "none", fds |-> {}]

\* a close() that leaves the descriptor open
close_fd_leaked(fds, fd) == fds

\* close(fd)
close_fd(fds, fd) == fds \ {fd}

\* child 1 (lines 830-832): close(pipefd[READ_END]), dup2(pipefd[WRITE_END],
\* STDOUT_FILENO), close(pipefd[WRITE_END])
child1_fds(fds) == close_fd(close_fd(fds, READ_END), WRITE_END)

\* child 2 (lines 851-853): close(pipefd[WRITE_END]), dup2(pipefd[READ_END],
\* STDIN_FILENO), close(pipefd[READ_END])
child2_fds(fds) == close_fd(close_fd(fds, WRITE_END), READ_END)

\* handle_child_execution (lines 615-631): a redirection file is opened,
\* dup2'ed onto 0 or 1 and the original descriptor closed
handle_child_execution_fds(fds) ==
  close_fd(close_fd(fds \cup {"fd_in"}, "fd_in") \cup {"fd_out"}, "fd_out")

\* the descriptors beyond 0, 1, 2 a child holds when it calls execvp
fds_at_exec(kid) ==
  handle_child_execution_fds(
    CASE kid.code = "left"  -> child1_fds(kid.fds)
      [] kid.code = "right" -> child2_fds(kid.fds)
      [] OTHER              -> kid.fds)

\* the kernel closes the descriptors of a process that terminates
ReleaseFds(pr, kd) ==
  [p \in Pids |-> IF pr[p].st \in {"zombie", "free"} THEN NoKid ELSE kd[p]]

\* execute_pipeline has not run on a line yet
NoResult == [outcome |-> "none"]

TypeOK ==
  /\ shell_is_interactive \in BOOLEAN
  /\ next_jid \in 1..(MaxJid + 1)
  /\ tty_pgrp \in {cash_pgid} \cup Pids
  /\ tty_lent \in BOOLEAN
  /\ shell_fds \subseteq {READ_END, WRITE_END}
  /\ history_saved \in BOOLEAN
  /\ \A s \in Slots : job_list[s].state \in
        {JOB_STATE_INVALID, JOB_STATE_RUNNING, JOB_STATE_STOPPED}
  /\ \A p \in Pids : procs[p].st \in {"free", "pre", "run", "stop", "zombie"}

\* main() up to the main loop for the variables of the job-control model
InitJobControl ==
  /\ shell_is_interactive \in BOOLEAN
  /\ job_list = init_jobs
  /\ next_jid = 1
  /\ tty_pgrp = cash_pgid
  /\ procs = [p \in Pids |-> FreeProc]
  /\ pc = "loop"
  /\ background = FALSE
  /\ pid1 = 0 /\ pid2 = 0 /\ child_pgid = 0
  /\ fg_slot = 0
  /\ fg_job = EmptyJob
  /\ printed = << >>
  /\ members = [s \in Slots |-> {}]
  /\ tty_lent = FALSE
  /\ shell_fds = {}
  /\ kids = [p \in Pids |-> NoKid]

\* main() up to the main loop: init_jobs(), the shell owns the terminal, the
\* history file has been located and read
Init ==
  /\ InitJobControl
  /\ line_read = NULL
  /\ res = NoResult
  /\ history_filepath = IF shell_is_interactive THEN HistoryPath ELSE NULL
  /\ history_saved = FALSE

\* ------------------------------------------------------------ main thread
locals == << background, pid1, pid2, child_pgid, fg_slot, fg_job >>

\* return from execute_pipeline to the top of the main loop
Return ==
  /\ pc' = "loop"
  /\ background' = FALSE
  /\ pid1' = 0 /\ pid2' = 0 /\ child_pgid' = 0
  /\ fg_slot' = 0
  /\ fg_job' = EmptyJob

\* main: top of the loop, check_jobs_status() before the prompt
PromptDrain ==
  /\ pc = "loop"
  /\ pc' = "readline"
  /\ IF shell_is_interactive
     THEN /\ job_list' = check_jobs_status(job_list)
          /\ printed' = DrainLines(job_list, 1)
     ELSE UNCHANGED << job_list, printed >>
  /\ UNCHANGED << shell_is_interactive, next_jid, tty_pgrp, procs, locals,
                  members, tty_lent >>
  /\ UNCHANGED << shell_fds, kids, line_vars >>

\* tcsetpgrp(terminal_fd, g): fails (EPERM) when no such group exists
tcsetpgrp(pr, tty, g) == IF GroupExists(pr, g) THEN g ELSE tty

\* a wait_for_job that leaves the terminal with the job's group
reclaim_terminal_skipped(pr, tty) == tty

\* wait_for_job, lines 270-274: the terminal goes back to the shell's group
reclaim_terminal(pr, tty) == tcsetpgrp(pr, tty, cash_pgid)

\* setpgid(pid, g) called by the shell: the errno, or "ok"
setpgid_errno(pr, pid, g) ==
  IF ~Exists(pr, pid) THEN "ESRCH"
  ELSE IF pr[pid].st \in {"run", "stop"} THEN "EACCES"
  ELSE IF g # pid /\ ~GroupExists(pr, g) THEN "EPERM"
  ELSE "ok"

\* setpgid(pid, g) called by the shell: the processes afterwards
setpgid(pr, pid, g) ==
  IF setpgid_errno(pr, pid, g) = "ok" THEN [pr EXCEPT ![pid].pgid = g] ELSE pr

\* execute_single_command, lines 703-715: the parent's child_pgid
\* (negative: the parent gives up and returns)
ParentChildPgid(interactive, pr, pid) ==
  IF ~interactive THEN pid
  ELSE LET e  == setpgid_errno(pr, pid, pid)
           g  == getpgid(setpgid(pr, pid, pid), pid)
       IN  IF e \notin {"ok", "EACCES", "ESRCH"} THEN g
           ELSE IF e \in {"EACCES", "ESRCH"}
                THEN (IF g < 0 THEN pid ELSE g)
                ELSE pid

\* the child fork() creates: in the shell's group, about to set group tgt
NewChild(tgt) == [st |-> "pre", rep |-> FALSE, pgid |-> cash_pgid, tgt |-> tgt]

\* a line "cmd" or "cmd &" with an external command: execute_pipeline parses
\* it and execute_single_command forks (lines 788-793, 693-694)
LaunchSingle(bg) ==
  /\ pc = "readline"
  /\ (bg /\ shell_is_interactive) =>
        (next_jid <= MaxJid \/ find_free_job_slot(job_list) = -1)
  /\ printed' = << >>
  /\ tty_lent' = FALSE
  /\ \/ /\ Return                         \* fork() < 0
        /\ UNCHANGED << procs, kids >>
     \/ \E p \in FreePids(procs) :
          /\ procs' = [procs EXCEPT ![p] = NewChild(p)]
          /\ kids' = [kids EXCEPT ![p] = [code |-> "single", fds |-> shell_fds]]
          /\ pc' = "s_parent"
          /\ background' = bg
          /\ pid1' = p
          /\ UNCHANGED << pid2, child_pgid, fg_slot, fg_job >>
  /\ UNCHANGED << shell_is_interactive, job_list, next_jid, tty_pgrp, members >>
  /\ UNCHANGED << shell_fds, line_vars >>

\* history: pids among S that still exist
Unreaped(pr, S) == {p \in S : Exists(pr, p)}

\* background branch of execute_single_command / execute_pipeline:
\* add_job(pgid, cmd, JOB_STATE_RUNNING) and return to the main loop
RegisterBackground(pr, pgid, cmd, pids) ==
  \E strdup_ok \in BOOLEAN :
    LET r    == add_job(job_list, next_jid, pgid, cmd, JOB_STATE_RUNNING, strdup_ok)
        slot == find_free_job_slot(job_list)
    IN  /\ job_list' = r.jl
        /\ next_jid' = r.nj
        /\ members' = IF r.ret > 0
                      THEN [members EXCEPT ![slot] = Unreaped(pr, pids)]
                      ELSE members
        /\ procs' = pr
        /\ Return
        /\ UNCHANGED << tty_pgrp, tty_lent >>

\* foreground branch: the transient fg_job and put_job_in_foreground(&fg_job, 0)
\* up to the call of wait_for_job
LaunchForeground(pr, pgid, cmd) ==
  \/ /\ procs' = pr                       \* strdup failed: return
     /\ Return
     /\ UNCHANGED << job_list, next_jid, members, tty_pgrp, tty_lent >>
  \/ /\ procs' = pr
     /\ fg_slot' = 0
     /\ fg_job' = [jid |-> 0, pgid |-> pgid, state |-> JOB_STATE_RUNNING,
                   command |-> cmd, notified |-> TRUE]
     /\ tty_pgrp' = tcsetpgrp(pr, tty_pgrp, pgid)
     /\ tty_lent' = (tty_pgrp' = pgid)
     /\ child_pgid' = pgid
     /\ pc' = "fg_wait"
     /\ UNCHANGED << job_list, next_jid, members, background, pid1, pid2 >>

\* neither branch applies, or the parent gave up: return to the main loop
LaunchNothing(pr) ==
  /\ procs' = pr
  /\ Return
  /\ UNCHANGED << job_list, next_jid, members, tty_pgrp, tty_lent >>

\* execute_single_command, parent side after fork (lines 702-737)
SingleParent ==
  /\ pc = "s_parent"
  /\ LET pr  == IF shell_is_interactive THEN setpgid(procs, pid1, pid1) ELSE procs
         cpg == ParentChildPgid(shell_is_interactive, procs, pid1)
     IN  IF shell_is_interactive /\ cpg < 0 THEN LaunchNothing(pr)
         ELSE IF background
         THEN IF shell_is_interactive /\ cpg > 0
              THEN RegisterBackground(pr, cpg, CmdSingle, {pid1})
              ELSE LaunchNothing(pr)
         ELSE IF shell_is_interactive /\ cpg > 0
              THEN LaunchForeground(pr, cpg, CmdSingle)
              ELSE /\ procs' = pr
                   /\ pc' = "s_waitpid"
                   /\ UNCHANGED << job_list, next_jid, members, tty_pgrp,
                                   tty_lent, locals >>
  /\ UNCHANGED << shell_is_interactive, printed >>
  /\ UNCHANGED << shell_fds, kids, line_vars >>

\* the job_t the pointer handed to put_job_in_foreground refers to
FgJob == IF fg_slot = 0 THEN fg_job ELSE job_list[fg_slot]

\* children a waitpid(-g, &status, WUNTRACED) can return
WaitableIn(pr, g) == {p \in Reportable(pr) : pr[p].pgid = g}

\* waitpid(-g, ..) fails with ECHILD: the shell has no child in group g
NoChildIn(pr, g) == \A p \in Pids : Exists(pr, p) => pr[p].pgid # g

\* wait_for_job(job): blocks in waitpid(-pgid, WUNTRACED), takes the terminal
\* back and updates the job from the status of the one child waitpid returned
wait_for_job ==
  /\ pc = "fg_wait"
  /\ LET job == FgJob IN
     IF job.pgid <= 0 \/ job.state = JOB_STATE_INVALID
     THEN UNCHANGED << procs, tty_pgrp, job_list, members >>
     ELSE \/ \E p \in WaitableIn(procs, job.pgid) :
               IF procs[p].st = "zombie"
               THEN \* WIFEXITED || WIFSIGNALED
                    /\ procs' = [procs EXCEPT ![p] = FreeProc]
                    /\ members' = Forget(members, p)
                    /\ tty_pgrp' = reclaim_terminal(procs', tty_pgrp)
                    /\ job_list' = remove_job_by_pgid(job_list, job.pgid)
               ELSE \* WIFSTOPPED
                    /\ procs' = [procs EXCEPT ![p].rep = TRUE]
                    /\ tty_pgrp' = reclaim_terminal(procs', tty_pgrp)
                    /\ job_list' = IF fg_slot = 0 THEN job_list
                                   ELSE [job_list EXCEPT
                                           ![fg_slot].state = JOB_STATE_STOPPED,
                                           ![fg_slot].notified = FALSE]
                    /\ UNCHANGED members
          \/ /\ NoChildIn(procs, job.pgid)        \* result < 0, ECHILD
             /\ tty_pgrp' = reclaim_terminal(procs, tty_pgrp)
             /\ job_list' = remove_job_by_pgid(job_list, job.pgid)
             /\ UNCHANGED << procs, members >>
  /\ Return
  /\ UNCHANGED << shell_is_interactive, next_jid, printed, tty_lent >>
  /\ UNCHANGED << shell_fds, kids, line_vars >>

\* waitpid(pid, NULL, 0): the non-interactive waits (lines 734, 884, 885) and
\* the wait after a failed second fork (line 844)
waitpid_child ==
  /\ pc \in {"s_waitpid", "p_wait1", "p_wait2"}
  /\ LET pid == IF pc = "p_wait2" THEN pid2 ELSE pid1 IN
     \/ /\ procs[pid].st = "zombie"
        /\ procs' = [procs EXCEPT ![pid] = FreeProc]
        /\ members' = Forget(members, pid)
     \/ /\ ~Exists(procs, pid)                    \* ECHILD
        /\ UNCHANGED << procs, members >>
  /\ IF pc = "p_wait1" /\ pid2 # 0
     THEN /\ pc' = "p_wait2"
          /\ UNCHANGED locals
     ELSE Return
  /\ UNCHANGED << shell_is_interactive, job_list, next_jid, tty_pgrp, printed,
                  tty_lent >>
  /\ UNCHANGED << shell_fds, kids, line_vars >>

\* a line "cmd1 | cmd2" or "cmd1 | cmd2 &": execute_pipeline up to the first
\* fork (lines 816-835)
LaunchPipe(bg) ==
  /\ pc = "readline"
  /\ (bg /\ shell_is_interactive) =>
        (next_jid <= MaxJid \/ find_free_job_slot(job_list) = -1)
  /\ printed' = << >>
  /\ tty_lent' = FALSE
  /\ \/ /\ Return                         \* pipe() failed
        /\ UNCHANGED << procs, kids, shell_fds >>
     \/ /\ Return                         \* fork() < 0: both ends closed
        /\ shell_fds' = close_fd(close_fd(shell_fds \cup {READ_END, WRITE_END},
                                           READ_END), WRITE_END)
        /\ UNCHANGED << procs, kids >>
     \/ \E p \in FreePids(procs) :
          /\ procs' = [procs EXCEPT ![p] = NewChild(p)]
          /\ shell_fds' = shell_fds \cup {READ_END, WRITE_END}
          /\ kids' = [kids EXCEPT ![p] = [code |-> "left", fds |-> shell_fds']]
          /\ pc' = "p_fork2"
          /\ background' = bg
          /\ pid1' = p
          /\ child_pgid' = p              \* pipeline_pgid = pid1
          /\ UNCHANGED << pid2, fg_slot, fg_job >>
  /\ UNCHANGED << shell_is_interactive, job_list, next_jid, tty_pgrp, members >>
  /\ UNCHANGED line_vars

\* execute_pipeline, the second fork (lines 839-855)
PipeFork2 ==
  /\ pc = "p_fork2"
  /\ \/ \E p \in FreePids(procs) :
          /\ procs' = [procs EXCEPT ![p] = NewChild(child_pgid)]
          /\ kids' = [kids EXCEPT ![p] = [code |-> "right", fds |-> shell_fds]]
          /\ pid2' = p
          /\ pc' = "p_parent"
          /\ UNCHANGED shell_fds
     \/ \* fork() < 0: both ends closed, kill(-pipeline_pgid, SIGKILL), then
        \* waitpid(pid1)
        /\ shell_fds' = close_fd(close_fd(shell_fds, READ_END), WRITE_END)
        /\ procs' = IF child_pgid > 0 /\ shell_is_interactive
                    THEN KillGroup(procs, child_pgid) ELSE procs
        /\ kids' = ReleaseFds(procs', kids)
        /\ pid2' = 0
        /\ pc' = "p_wait1"
  /\ UNCHANGED << shell_is_interactive, job_list, next_jid, tty_pgrp,
                  background, pid1, child_pgid, fg_slot, fg_job, printed,
                  members, tty_lent >>
  /\ UNCHANGED line_vars

\* execute_pipeline, parent side after both forks (lines 857-887)
PipeParent ==
  /\ pc = "p_parent"
  /\ LET pr == IF shell_is_interactive
               THEN setpgid(procs, pid2, child_pgid) ELSE procs
     IN  IF background
         THEN IF shell_is_interactive /\ child_pgid > 0
              THEN RegisterBackground(pr, child_pgid, CmdPipe, {pid1, pid2})
              ELSE LaunchNothing(pr)
         ELSE IF shell_is_interactive /\ child_pgid > 0
              THEN LaunchForeground(pr, child_pgid, CmdPipe)
              ELSE /\ procs' = pr
                   /\ pc' = "p_wait1"
                   /\ UNCHANGED << job_list, next_jid, members, tty_pgrp,
                                   tty_lent, locals >>
  /\ shell_fds' = close_fd(close_fd(shell_fds, READ_END), WRITE_END)
  /\ UNCHANGED << shell_is_interactive, printed >>
  /\ UNCHANGED << kids, line_vars >>

\* the built-in "fg %n" (lines 672-680): get_job_by_jid, then
\* put_job_in_foreground(job, job->state == JOB_STATE_STOPPED) up to the call
\* of wait_for_job.  The table, the processes and the terminal afterwards, and
\* the slot the shell then waits on (-1: "No such job")
builtin_fg(jl, pr, tty, n) ==
  LET slot == find_job_slot_by_jid(jl, n) IN
  IF slot = -1
  THEN [jl |-> jl, pr |-> pr, tty |-> tty, slot |-> -1]
  ELSE LET job  == jl[slot]
           cont == (job.state = JOB_STATE_STOPPED)
       IN  [jl   |-> [jl EXCEPT ![slot].state = JOB_STATE_RUNNING,
                                ![slot].notified = TRUE],
            pr   |-> IF cont THEN Continue(pr, job.pgid) ELSE pr,
            tty  |-> tcsetpgrp(pr, tty, job.pgid),
            slot |-> slot]

BuiltinFg(n) ==
  /\ pc = "readline"
  /\ shell_is_interactive
  /\ printed' = << >>
  /\ LET r == builtin_fg(job_list, procs, tty_pgrp, n) IN
     /\ job_list' = r.jl
     /\ procs' = r.pr
     /\ tty_pgrp' = r.tty
     /\ IF r.slot = -1
        THEN /\ Return                    \* "No such job"
             /\ tty_lent' = FALSE
        ELSE /\ tty_lent' = (tty_pgrp' = job_list[r.slot].pgid)
             /\ fg_slot' = r.slot
             /\ pc' = "fg_wait"
             /\ UNCHANGED << background, pid1, pid2, child_pgid, fg_job >>
  /\ UNCHANGED << shell_is_interactive, next_jid, members >>
  /\ UNCHANGED << shell_fds, kids, line_vars >>

\* put_job_in_background(job, 1): the job afterwards
put_job_in_background(pr, job) ==
  IF job.state = JOB_STATE_INVALID \/ job.state = JOB_STATE_RUNNING THEN job
  ELSE IF HasProcess(pr, job.pgid)
       THEN [job EXCEPT !.state = JOB_STATE_RUNNING, !.notified = TRUE]
       ELSE [job EXCEPT !.state = JOB_STATE_STOPPED, !.notified = TRUE]

\* a put_job_in_background that sends no signal
bg_signal_none(pr, g) == pr

\* put_job_in_background, line 335: kill(-(job->pgid), SIGCONT)
bg_signal(pr, g) == Continue(pr, g)

\* the lines "bg %n" writes: "[jid] cmd &" (line 686) as soon as the job is
\* found, then "job already running" (line 326) from put_job_in_background
bg_lines(job) ==
  << <<"Resume", job.jid, job.command>> >>
  \o (IF job.state = JOB_STATE_RUNNING
      THEN << <<"AlreadyRunning", job.jid, job.command>> >> ELSE << >>)

\* the built-in "bg %n" (lines 681-689): the table and the processes
\* afterwards, and the lines written
builtin_bg(jl, pr, n) ==
  LET slot == find_job_slot_by_jid(jl, n) IN
  IF slot = -1
  THEN [jl |-> jl, pr |-> pr, out |-> << <<"NoSuchJob", n, NULL>> >>]
  ELSE [jl |-> [jl EXCEPT ![slot] = put_job_in_background(pr, jl[slot])],
        pr |-> IF jl[slot].state = JOB_STATE_STOPPED
               THEN bg_signal(pr, jl[slot].pgid) ELSE pr,
        out |-> bg_lines(jl[slot])]

BuiltinBg(n) ==
  /\ pc = "readline"
  /\ shell_is_interactive
  /\ tty_lent' = FALSE
  /\ LET r == builtin_bg(job_list, procs, n) IN
     /\ job_list' = r.jl
     /\ procs' = r.pr
     /\ printed' = r.out
  /\ Return
  /\ UNCHANGED << shell_is_interactive, next_jid, tty_pgrp, members >>
  /\ UNCHANGED << shell_fds, kids, line_vars >>

\* the built-in "jobs": check_jobs_status() if interactive, then list_jobs()
BuiltinJobs ==
  /\ pc = "readline"
  /\ tty_lent' = FALSE
  /\ IF shell_is_interactive
     THEN /\ job_list' = check_jobs_status(job_list)
          /\ printed' = DrainLines(job_list, 1)
     ELSE /\ printed' = << >>
          /\ UNCHANGED job_list
  /\ Return
  /\ UNCHANGED << shell_is_interactive, next_jid, tty_pgrp, procs, members >>
  /\ UNCHANGED << shell_fds, kids, line_vars >>

\* ------------------------------------------------------------ SIGCHLD
\* a marking that reaches every live entry of the table
mark_stopped_every(jl, slot) ==
  [s \in Slots |-> IF jl[s].state # JOB_STATE_INVALID
                   THEN [jl[s] EXCEPT !.state = JOB_STATE_STOPPED,
                                      !.notified = FALSE]
                   ELSE jl[s]]

\* job->state = JOB_STATE_STOPPED; job->notified = 0 (lines 373-374)
mark_stopped(jl, slot) ==
  [jl EXCEPT ![slot].state = JOB_STATE_STOPPED, ![slot].notified = FALSE]

\* one iteration of the handler's loop for the child p waitpid(-1, ..) returned
HandlerStep(pr, jl, p) ==
  LET exited   == (pr[p].st = "zombie")
      pr1      == IF exited THEN [pr EXCEPT ![p] = FreeProc]
                  ELSE [pr EXCEPT ![p].rep = TRUE]
      job_pgid == getpgid(pr1, p)
      slot     == IF job_pgid > 0 THEN find_job_slot_by_pgid(jl, job_pgid) ELSE -1
  IN  [pr |-> pr1,
       jl |-> IF slot = -1 THEN jl
              ELSE IF exited
                   THEN [jl EXCEPT ![slot].state = JOB_STATE_INVALID,
                                   ![slot].notified = FALSE]
                   ELSE IF jl[slot].state # JOB_STATE_STOPPED \/ ~jl[slot].notified
                        THEN mark_stopped(jl, slot)
                        ELSE jl]

\* while ((pid = waitpid(-1, &status, WNOHANG | WUNTRACED)) > 0) ...
RECURSIVE HandlerLoop(_, _)
HandlerLoop(pr, jl) ==
  IF Reportable(pr) = {} THEN [pr |-> pr, jl |-> jl]
  ELSE LET p == CHOOSE q \in Reportable(pr) : TRUE
           r == HandlerStep(pr, jl, p)
       IN  HandlerLoop(r.pr, r.jl)

\* handle_sigchld, run to completion (SIGCHLD is blocked while it runs).  A
\* SIGCHLD is pending whenever a child has a status change no waitpid has
\* returned yet; a run that finds none changes nothing.
handle_sigchld ==
  /\ shell_is_interactive
  /\ Reportable(procs) # {}
  /\ LET r == HandlerLoop(procs, job_list)
     IN  /\ procs' = r.pr
         /\ job_list' = r.jl
         /\ members' = [s \in Slots |-> Unreaped(r.pr, members[s])]
  /\ UNCHANGED << shell_is_interactive, next_jid, tty_pgrp, pc, locals, printed,
                  tty_lent >>
  /\ UNCHANGED << shell_fds, kids, line_vars >>

\* ------------------------------------------------------------ children
\* what can go wrong on the child's side between fork and execvp
ChildFailures == {"none", "dup2_pipe", "open", "dup2", "execvp"}

\* a child that goes on after a failed execvp
execvp_failed_returns == "returns"

\* execvp returned -1: exit(EXIT_FAILURE) (lines 634-638)
execvp_failed == "EXIT_FAILURE"

\* handle_child_execution (lines 615-638): how the child ends, given the
\* call that fails
handle_child_execution_end(fail) ==
  IF fail \in {"open", "dup2"} THEN "EXIT_FAILURE"       \* 619, 621, 627, 629
  ELSE IF fail = "execvp" THEN execvp_failed
  ELSE "exec"

\* the child's code after fork (lines 695-701, 826-834, 847-855): how the
\* child ends.  joined: its setpgid succeeded (or the shell is not
\* interactive and none is made)
child_path(code, joined, fail) ==
  IF ~joined THEN "EXIT_FAILURE"                          \* 699, 828, 849
  ELSE IF code \in {"left", "right"} /\ fail = "dup2_pipe"
       THEN "EXIT_FAILURE"                                \* 831, 852
       ELSE handle_child_execution_end(fail)

\* the child side after fork: its setpgid (lines 699, 828, 849), then
\* handle_child_execution up to execvp.  A right child that cannot join the
\* pipeline's group, and a child whose redirection or execvp fails, exits
\* with EXIT_FAILURE.
ChildStart(p) ==
  /\ procs[p].st = "pre"
  /\ \E fail \in ChildFailures :
     LET joined == ~shell_is_interactive \/ procs[p].tgt = p
                   \/ HasProcess(procs, procs[p].tgt)
         g      == IF shell_is_interactive /\ joined THEN procs[p].tgt
                   ELSE procs[p].pgid
         end    == child_path(kids[p].code, joined, fail)
     IN  CASE end = "exec" ->
                /\ procs' = [procs EXCEPT ![p].st = "run", ![p].tgt = 0,
                                          ![p].pgid = g]
                /\ kids' = [kids EXCEPT ![p] = [code |-> "none",
                                                fds  |-> fds_at_exec(kids[p])]]
           [] end = "EXIT_FAILURE" ->
                /\ procs' = [procs EXCEPT ![p].st = "zombie", ![p].tgt = 0,
                                          ![p].pgid = g]
                /\ kids' = ReleaseFds(procs', kids)
           [] OTHER ->                    \* back in the code of the shell
                /\ procs' = [procs EXCEPT ![p].st = "shell", ![p].tgt = 0,
                                          ![p].pgid = g]
                /\ UNCHANGED kids
  /\ UNCHANGED << shell_is_interactive, job_list, next_jid, tty_pgrp, pc,
                  locals, printed, members, tty_lent >>
  /\ UNCHANGED << shell_fds, line_vars >>

\* the program the child runs exits or is killed by a signal
ChildExit(p) ==
  /\ procs[p].st \in {"run", "stop"}
  /\ procs' = [procs EXCEPT ![p].st = "zombie", ![p].rep = FALSE]
  /\ UNCHANGED << shell_is_interactive, job_list, next_jid, tty_pgrp, pc,
                  locals, printed, members, tty_lent >>
  /\ kids' = ReleaseFds(procs', kids)
  /\ UNCHANGED << shell_fds, line_vars >>

\* a stop signal (SIGTSTP from the terminal, SIGTTIN, SIGSTOP) reaches the
\* running programs of process group g
GroupStop(g) ==
  /\ g # cash_pgid
  /\ \E p \in Pids : procs[p].st = "run" /\ procs[p].pgid = g
  /\ procs' = [p \in Pids |-> IF procs[p].st = "run" /\ procs[p].pgid = g
                              THEN [procs[p] EXCEPT !.st = "stop", !.rep = FALSE]
                              ELSE procs[p]]
  /\ UNCHANGED << shell_is_interactive, job_list, next_jid, tty_pgrp, pc,
                  locals, printed, members, tty_lent >>
  /\ UNCHANGED << shell_fds, kids, line_vars >>

Next ==
  \/ PromptDrain
  \/ \E bg \in BOOLEAN : LaunchSingle(bg)
  \/ SingleParent
  \/ \E bg \in BOOLEAN : LaunchPipe(bg)
  \/ PipeFork2
  \/ PipeParent
  \/ wait_for_job
  \/ waitpid_child
  \/ \E n \in 1..MaxJid : BuiltinFg(n)
  \/ \E n \in 1..MaxJid : BuiltinBg(n)
  \/ BuiltinJobs
  \/ handle_sigchld
  \/ \E p \in Pids : ChildStart(p)
  \/ \E p \in Pids : ChildExit(p)
  \/ \E g \in Pids : GroupStop(g)

Spec == Init /\ [][Next]_vars

\* The shell and its children keep running: the main thread takes its next
\* step whenever it is not blocked, a pending SIGCHLD is delivered, a forked
\* child gets to run, and the user keeps entering "jobs" at the prompt.
Fairness ==
  /\ WF_vars(PromptDrain)
  /\ WF_vars(SingleParent)
  /\ WF_vars(PipeFork2)
  /\ WF_vars(PipeParent)
  /\ WF_vars(wait_for_job)
  /\ WF_vars(waitpid_child)
  /\ WF_vars(handle_sigchld)
  /\ WF_vars(BuiltinJobs)
  /\ \A p \in Pids : WF_vars(ChildStart(p))

FairSpec == Init /\ [][Next]_vars /\ Fairness

\* ------------------------------------------------------- the command line
\* A line is a sequence of characters.  The lines entered are made of up to
\* MaxPieces of the pieces below, so that words such as "a", "exit", "exita",
\* "a|a" and "a&" and redirections such as "a > a|a" all occur.
Pieces == { <<"a">>, <<"e", "x", "i", "t">>,
            <<" ">>, <<"|">>, <<"&">>, <<">">>, <<"<">>,
            <<" ", ">", " ">>, <<" ", "<", " ">> }

RECURSIVE LinesUpTo(_)
LinesUpTo(n) ==
  IF n = 0 THEN { << >> }
  ELSE LET S == LinesUpTo(n - 1) IN S \cup {l \o p : l \in S, p \in Pieces}

Lines == LinesUpTo(MaxPieces)

BEL == "BEL"                              \* the character '\a'
WS == {" ", "\t", "\n", "\r"}             \* " \t\n\r"
Delims == WS \cup {BEL}                   \* " \t\n\r\a"
OpChars == {"<", ">", "|", "&"}           \* "<>|&"

\* the names execute_pipeline and execute_single_command compare with
Builtins == { <<"j", "o", "b", "s">>, <<"f", "g">>, <<"b", "g">>,
              <<"e", "x", "i", "t">>, <<"c", "d">>,
              <<"c", "l", "e", "a", "r">> }

\* s[strspn(s, cs)] == '\0'
AllIn(s, cs) == \A i \in 1..Len(s) : s[i] \in cs

\* while (end >= s && strchr(cs, *end)) *end-- = '\0'
RECURSIVE RTrim(_, _)
RTrim(s, cs) ==
  IF s # << >> /\ s[Len(s)] \in cs THEN RTrim(SubSeq(s, 1, Len(s) - 1), cs) ELSE s

\* strchr(s, c): the index of the first c in s, 0 if there is none
IndexOf(s, c) ==
  LET I == {i \in 1..Len(s) : s[i] = c} IN IF I = {} THEN 0 ELSE Min(I)

\* the tokens successive strtok(.., ds) calls return
RECURSIVE Tokens(_, _)
Tokens(s, ds) ==
  IF s = << >> THEN << >>
  ELSE IF s[1] \in ds THEN Tokens(Tail(s), ds)
  ELSE LET E == {i \in 1..Len(s) : s[i] \in ds}
           n == IF E = {} THEN Len(s) + 1 ELSE Min(E)
       IN  << SubSeq(s, 1, n - 1) >> \o Tokens(SubSeq(s, n, Len(s)), ds)

NoCommand == [ok |-> FALSE, args |-> << >>, inputFile |-> NULL, outputFile |-> NULL]

\* parse_command, the while loop over the tokens (lines 573-591)
RECURSIVE ParseTokens(_, _)
ParseTokens(toks, acc) ==
  IF toks = << >> THEN acc
  ELSE IF Head(toks) = << "<" >>
  THEN IF Len(toks) = 1 \/ toks[2][1] \in OpChars
       THEN [acc EXCEPT !.ok = FALSE, !.args = << >>]
       ELSE ParseTokens(SubSeq(toks, 3, Len(toks)), [acc EXCEPT !.inputFile = toks[2]])
  ELSE IF Head(toks) = << ">" >>
  THEN IF Len(toks) = 1 \/ toks[2][1] \in OpChars
       THEN [acc EXCEPT !.ok = FALSE, !.args = << >>]
       ELSE ParseTokens(SubSeq(toks, 3, Len(toks)), [acc EXCEPT !.outputFile = toks[2]])
  ELSE ParseTokens(Tail(toks), [acc EXCEPT !.args = Append(acc.args, Head(toks))])

\* parse_command: ok is the value returned
parse_command(s) ==
  IF AllIn(s, Delims) THEN NoCommand
  ELSE LET r == ParseTokens(Tokens(s, Delims), [NoCommand EXCEPT !.ok = TRUE])
       IN  IF ~r.ok THEN r ELSE [r EXCEPT !.ok = (r.args # << >>)]

\* main, lines 497-500: original_input_for_job, the text shown for the job
job_title(line) == RTrim(line, WS \cup {"&"})

Result(o, bg, c1, c2, title) ==
  [outcome |-> o, background |-> bg, cmd1 |-> c1, cmd2 |-> c2, title |-> title]

\* what descriptors 0 and 1 of a forked child refer to: at fork, those of
\* the shell
Inherited == [stdin |-> "inherited", stdout |-> "inherited"]

\* handle_child_execution(args, inputFile, outputFile), lines 617-631: the
\* streams of the child at execvp (each open and dup2 succeeding)
handle_child_execution(streams, inputFile, outputFile) ==
  [stdin  |-> IF inputFile # NULL THEN inputFile ELSE streams.stdin,
   stdout |-> IF outputFile # NULL THEN outputFile ELSE streams.stdout]

\* a left child that is handed its own output redirection
child1_streams_redirected(c1) ==
  handle_child_execution([Inherited EXCEPT !.stdout = WRITE_END],
                         c1.inputFile, c1.outputFile)

\* child 1 (lines 830-833): dup2(pipefd[WRITE_END], STDOUT_FILENO), then
\* handle_child_execution(args1, inputFile1, NULL)
child1_streams(c1) ==
  handle_child_execution([Inherited EXCEPT !.stdout = WRITE_END],
                         c1.inputFile, NULL)

\* child 2 (lines 851-854): dup2(pipefd[READ_END], STDIN_FILENO), then
\* handle_child_execution(args2, NULL, outputFile2)
child2_streams(c2) ==
  handle_child_execution([Inherited EXCEPT !.stdin = READ_END],
                         NULL, c2.outputFile)

\* the warnings of lines 812-813
pipe_warnings(c1, c2) ==
  (IF c1.outputFile # NULL THEN << "output redirection ignored" >> ELSE << >>)
  \o (IF c2.inputFile # NULL THEN << "input redirection ignored" >> ELSE << >>)

\* what execute_pipeline goes on to do with a pipeline it accepted (lines
\* 812-855): the warnings written and the streams of the two children forked
Piped(r) ==
  [outcome |-> r.outcome, background |-> r.background, cmd1 |-> r.cmd1,
   cmd2 |-> r.cmd2, title |-> r.title,
   warnings |-> pipe_warnings(r.cmd1, r.cmd2),
   child1 |-> child1_streams(r.cmd1),
   child2 |-> child2_streams(r.cmd2)]

\* execute_pipeline(input, original_cmd_for_job) up to the point where it
\* returns or goes on to run something:
\*   "empty"         nothing to run (line 762)
\*   "rejected"      a syntax error (lines 782, 791, 804, 805, 810)
\*   "builtin"       execute_single_command runs a built-in in the shell
\*   "single"        execute_single_command forks one child
\*   "builtin_piped" the error of line 797
\*   "pipeline"      pipe() and two forks, with the children's streams
execute_pipeline(input, title) ==
  LET s1         == RTrim(input, WS)
      bg         == s1 # << >> /\ s1[Len(s1)] = "&"
      s2         == IF bg THEN RTrim(SubSeq(s1, 1, Len(s1) - 1), {" ", "\t"})
                    ELSE s1
      first      == Tokens(s2, Delims \cup {"|"})
      is_builtin == first # << >> /\ first[1] \in Builtins
      pipe_pos   == IndexOf(s2, "|")
  IN  IF AllIn(s2, WS) THEN Result("empty", bg, NoCommand, NoCommand, title)
      ELSE IF pipe_pos = 0
      THEN LET c == parse_command(s2) IN
           IF ~c.ok THEN Result("rejected", bg, NoCommand, NoCommand, title)
           ELSE Result(IF c.args[1] \in Builtins THEN "builtin" ELSE "single",
                       bg, c, NoCommand, title)
      ELSE IF is_builtin
      THEN Result("builtin_piped", bg, NoCommand, NoCommand, title)
      ELSE LET cmd1_str == SubSeq(s2, 1, pipe_pos - 1)
               cmd2_str == SubSeq(s2, pipe_pos + 1, Len(s2))
               c1       == parse_command(cmd1_str)
               c2       == parse_command(cmd2_str)
           IN  IF AllIn(cmd1_str, WS) \/ AllIn(cmd2_str, WS) \/ ~c1.ok \/ ~c2.ok
               THEN Result("rejected", bg, NoCommand, NoCommand, title)
               ELSE Piped(Result("pipeline", bg, c1, c2, title))

\* execute_single_command, line 655: the built-in is "exit"
IsExit(r) == r.outcome = "builtin" /\ r.cmd1.args[1] = <<"e", "x", "i", "t">>

job_vars == << job_list, next_jid, tty_pgrp, procs, background, pid1, pid2,
               child_pgid, fg_slot, fg_job, printed, members, tty_lent,
               shell_fds, kids >>

\* main, lines 476-507: readline returns the line the user enters; a blank
\* line is skipped, any other goes to execute_pipeline.  "exit" ends the
\* process there and then (exit(0) at line 655).
ReadLine ==
  /\ pc = "readline"
  /\ line_read # NULL
  /\ IF AllIn(line_read, WS)
     THEN /\ pc' = "loop"
          /\ UNCHANGED res
     ELSE /\ res' = execute_pipeline(line_read, job_title(line_read))
          /\ pc' = IF IsExit(res') THEN "exited" ELSE "loop"
  /\ UNCHANGED << shell_is_interactive, line_read, history_filepath,
                  history_saved, job_vars >>

\* main, lines 479-482 and 510-526: readline returns NULL, the loop ends and
\* the history is written if there is a history file
EndOfInput ==
  /\ pc = "readline"
  /\ pc' = "exited"
  /\ history_saved' = (shell_is_interactive /\ history_filepath # NULL)
  /\ UNCHANGED << shell_is_interactive, line_read, res, history_filepath,
                  job_vars >>

\* the shell started, the user about to enter one of the lines (again and
\* again) or to end the input
InitLine ==
  /\ InitJobControl
  /\ line_read \in Lines
  /\ res = NoResult
  /\ history_filepath \in (IF shell_is_interactive THEN {HistoryPath, NULL}
                                                   ELSE {NULL})
  /\ history_saved = FALSE

NextLine ==
  \/ PromptDrain
  \/ ReadLine
  \/ EndOfInput

LineSpec == InitLine /\ [][NextLine]_vars

\* ------------------------------------------------------------ properties
Live(j) == j.state # JOB_STATE_INVALID

\* the main thread returns from wait_for_job on the transient job of a
\* foreground launch
FgLaunchWaitReturns == pc = "fg_wait" /\ pc' = "loop" /\ fg_slot = 0

\* C1: in interactive mode the terminal's foreground process group is the
\* shell's own group whenever the main loop is about to print the prompt.
C1_TerminalAtPrompt ==
  (shell_is_interactive /\ pc = "readline") => tty_pgrp = cash_pgid

\* C1 witness: a prompt after a line that handed the terminal to a job's group
C1_Witness ==
  shell_is_interactive /\ pc = "readline" /\ tty_lent /\ tty_pgrp = cash_pgid

\* C2: the foreground wait on a two-stage pipeline whose children are both in
\* the pipeline's group does not return while one of the two is still alive
\* and not stopped (that is, after only one child has exited).
C2_WaitCoversWholeGroup ==
  [][ ( /\ FgLaunchWaitReturns
        /\ pid2 # 0
        /\ \A p \in {pid1, pid2} : Exists(procs, p) /\ procs[p].pgid = fg_job.pgid )
      => \A p \in {pid1, pid2} : procs'[p].st \notin {"pre", "run"} ]_vars

\* C3: when the foreground wait of a launched command returns because the
\* command stopped, the job table holds an entry for the job's group in state
\* Stopped with notified = false (which the next prompt then reports).
C3_StoppedForegroundIsTracked ==
  [][ ( /\ FgLaunchWaitReturns
        /\ \E p \in Pids : procs[p].st = "stop" /\ ~procs[p].rep /\ procs'[p].rep )
      => \E s \in Slots : /\ job_list'[s].pgid = fg_job.pgid
                          /\ job_list'[s].state = JOB_STATE_STOPPED
                          /\ ~job_list'[s].notified ]_vars

\* the number of lines of a drain that are the Done line of jid with text cmd
DoneCount(lines, jid, cmd) ==
  Cardinality({i \in 1..Len(lines) : lines[i] = <<"Done", jid, cmd>>})

\* C4: for a registered background job whose processes have all terminated and
\* been reaped, once the SIGCHLD handler has nothing left to collect, the
\* prompt-time drain prints exactly one Done line with the job's jid and text
\* and the entry is gone from the table afterwards.
C4_DoneReportedOnce ==
  [][ (pc = "loop" /\ pc' = "readline" /\ shell_is_interactive)
      => \A s \in Slots :
           ( /\ job_list[s].command # NULL
             /\ members[s] = {}
             /\ Reportable(procs) = {} )
           => /\ DoneCount(printed', job_list[s].jid, job_list[s].command) = 1
              /\ ~Live(job_list'[s])
              /\ job_list'[s].command = NULL ]_vars

\* C5: the live (Running or Stopped) entries of the table are exactly the
\* registered jobs that still have a process that has not been reaped.
C5_TableMatchesUnreapedJobs ==
  {s \in Slots : Live(job_list[s])} = {s \in Slots : members[s] # {}}

\* C6: a slot that receives a job receives the current value of the counter,
\* which is then incremented; the counter never decreases, and so the jids of
\* the entries are distinct and below the counter.
C6_JidsStrictlyIncrease ==
  [][ /\ next_jid' >= next_jid
      /\ \A s \in Slots :
           (Live(job_list'[s]) /\ ~Live(job_list[s]))
           => (job_list'[s].jid = next_jid /\ next_jid' = next_jid + 1)
      /\ \A s \in Slots : Live(job_list'[s]) =>
           /\ job_list'[s].jid >= 1
           /\ job_list'[s].jid < next_jid'
           /\ \A t \in Slots : (t # s /\ Live(job_list'[t]))
                               => job_list'[t].jid # job_list'[s].jid ]_vars

\* C6 witness: a job has been added to a slot whose index is below its jid
\* (the slot was used before, or an earlier add consumed a jid)
C6_Witness ==
  \E s \in Slots : Live(job_list[s]) /\ job_list[s].jid > s

\* C7: no two non-invalid entries have the same pgid, and every non-invalid
\* entry has pgid > 0.
C7_UniquePgid ==
  \A s \in Slots : Live(job_list[s]) =>
    /\ job_list[s].pgid > 0
    /\ \A t \in Slots : (t # s /\ Live(job_list[t]))
                        => job_list[t].pgid # job_list[s].pgid

\* C8: a background launch made while every slot of the table holds a Running
\* job forks no child.
C8_FullTableNoFork ==
  [][ ( /\ pc = "readline"
        /\ shell_is_interactive
        /\ \A s \in Slots : job_list[s].state = JOB_STATE_RUNNING
        /\ background' )
      => procs' = procs ]_vars

\* a step of the main thread that belongs to a foreground launch
FgLaunchStep ==
  \/ pc = "readline" /\ pc' \in {"s_parent", "p_fork2"} /\ ~background'
  \/ pc \in {"s_parent", "p_fork2", "p_parent"} /\ ~background /\ pc' # pc
  \/ FgLaunchWaitReturns

\* C9: no step of a foreground launch (fork, setpgid, terminal handover,
\* foreground wait on the transient job) changes the job table or the jid
\* counter.
C9_ForegroundLeavesTable ==
  [][ (shell_is_interactive /\ FgLaunchStep)
      => (job_list' = job_list /\ next_jid' = next_jid) ]_vars

\* C10: in interactive mode every child that leaves its setup code (by exec or
\* by exit) is in the group it was forked for: its own for a single command
\* and a left child, the left child's for a right child.
C10_ChildInItsGroup ==
  [][ \A p \in Pids :
        (shell_is_interactive /\ procs[p].st = "pre" /\ procs'[p].st # "pre")
        => procs'[p].pgid = procs[p].tgt ]_vars

\* C11: a background job whose child has already been reaped by the SIGCHLD
\* handler when the parent reaches setpgid and add_job (the child is gone at
\* "s_parent") does not stay in the table for ever: eventually no live entry
\* holds the child's pgid.
C11_LateJobLeavesTable ==
  \A p \in Pids :
    ( /\ pc = "s_parent" /\ background /\ shell_is_interactive
      /\ pid1 = p /\ ~Exists(procs, p) )
    ~> ( /\ pc # "s_parent"
         /\ \A s \in Slots : Live(job_list[s]) => job_list[s].pgid # p )

\* C12: when the second fork of a pipeline fails (the parent goes on to
\* waitpid(pid1)), the left child has been terminated by the SIGKILL sent to
\* the pipeline's group, in interactive and in non-interactive mode alike.
C12_LeftChildKilled ==
  [][ (pc = "p_fork2" /\ pc' = "p_wait1")
      => procs'[pid1].st \notin {"pre", "run", "stop"} ]_vars

\* two children of one group other than the shell's: a pipeline's children
PipelineRunning ==
  \E p, q \in Pids : /\ p # q
                     /\ procs[p].st = "run" /\ procs[q].st = "run"
                     /\ procs[p].pgid = procs[q].pgid

\* C13: whenever the main thread is outside execute_pipeline's pipe handling
\* (at the prompt, at the top of the loop, in any wait) the shell holds no
\* pipe descriptor, and a child that has called execvp holds none of the
\* original pipe or redirection descriptors.
C13_NoDescriptorLeft ==
  /\ pc \notin {"p_fork2", "p_parent"} => shell_fds = {}
  /\ \A p \in Pids : procs[p].st \in {"run", "stop"} => kids[p].fds = {}

\* C13 witness: back at the top of the loop with both children of a pipeline
\* running their programs
C13_Witness ==
  pc = "loop" /\ PipelineRunning /\ shell_fds = {}

\* C14: during a foreground launch no process of the job runs its program
\* (and so can read standard input) before the terminal has been handed to
\* the job's group.
C14_TerminalBeforeChildRuns ==
  ( /\ shell_is_interactive
    /\ pc \in {"s_parent", "p_fork2", "p_parent"}
    /\ ~background )
  => \A p \in {pid1, pid2} \ {0} :
       procs[p].st = "run" => tty_pgrp = procs[p].pgid

\* C15: for a stopped job n at the prompt, "bg %n", the next prompt's drain and
\* then "fg %n" lead to the same entry for the job, the same processes (the
\* group continued, none left stopped), the same terminal owner and the same
\* slot to wait on as "fg %n" entered directly.
C15_BgThenFgSameAsFg ==
  (pc = "readline" /\ shell_is_interactive) =>
    \A n \in 1..MaxJid :
      LET slot == find_job_slot_by_jid(job_list, n) IN
      (slot # -1 /\ job_list[slot].state = JOB_STATE_STOPPED) =>
        LET direct == builtin_fg(job_list, procs, tty_pgrp, n)
            b      == builtin_bg(job_list, procs, n)
            via    == builtin_fg(check_jobs_status(b.jl), b.pr, tty_pgrp, n)
        IN  /\ via.slot = direct.slot
            /\ via.jl[slot] = direct.jl[slot]
            /\ via.pr = direct.pr
            /\ via.tty = direct.tty
            /\ \A p \in Pids : via.pr[p].pgid = job_list[slot].pgid
                               => via.pr[p].st # "stop"

\* C15 witness: at the prompt with a stopped job whose process is stopped
C15_Witness ==
  /\ pc = "readline" /\ shell_is_interactive
  /\ \E s \in Slots : /\ job_list[s].state = JOB_STATE_STOPPED
                      /\ \E p \in Pids : /\ procs[p].st = "stop"
                                         /\ procs[p].pgid = job_list[s].pgid

\* C16: execute_pipeline never goes on to create a pipe and fork the two
\* children when the command word on the left or on the right of the pipe is
\* a built-in.
C16_BuiltinInPipelineRejected ==
  res.outcome = "pipeline" =>
    /\ res.cmd1.args[1] \notin Builtins
    /\ res.cmd2.args[1] \notin Builtins

\* C17: in an interactive session with a history file, the step that ends the
\* shell process (the exit built-in as well as end of input) has called
\* write_history.
C17_ExitSavesHistory ==
  [][ ( /\ pc = "readline" /\ pc' = "exited"
        /\ shell_is_interactive /\ history_filepath # NULL )
      => history_saved' ]_vars

\* the tokens that are an operator on their own
StandaloneOps == { << "<" >>, << ">" >>, << "|" >>, << "&" >> }

\* C18: a line is split at a pipe only if one of its whitespace-delimited
\* tokens is "|", the background flag is set only if its last token is "&",
\* and in "word > target" (or "<") a target that is not itself an operator
\* token is accepted even if it begins with an operator character.
C18_OperatorsAreWholeTokens ==
  res.outcome # "none" =>
    LET toks == Tokens(line_read, WS) IN
    /\ res.outcome \in {"pipeline", "builtin_piped"}
         => \E i \in 1..Len(toks) : toks[i] = << "|" >>
    /\ res.background => (toks # << >> /\ toks[Len(toks)] = << "&" >>)
    /\ ( /\ Len(toks) = 3
         /\ \A i \in 1..Len(toks[1]) : toks[1][i] \notin OpChars
         /\ toks[2] \in { << "<" >>, << ">" >> }
         /\ toks[3] \notin StandaloneOps
         /\ \A i \in 1..Len(toks[3]) : toks[3][i] # "|"
         /\ toks[3][Len(toks[3])] # "&" )
       => res.outcome # "rejected"

\* the commands, argument lists and redirection files of a parsed line
Commands(r) ==
  << r.cmd1.args, r.cmd1.inputFile, r.cmd1.outputFile,
     r.cmd2.args, r.cmd2.inputFile, r.cmd2.outputFile >>

\* C19: for a line execute_pipeline accepts, running execute_pipeline's
\* parsing on the job's display text gives the same kind of line with the same
\* commands, argument lists and redirection files.
C19_TitleParsesBack ==
  res.outcome \in {"builtin", "single", "pipeline"} =>
    LET again == execute_pipeline(res.title, job_title(res.title)) IN
    /\ again.outcome = res.outcome
    /\ Commands(again) = Commands(res)

\* ------------------------------------------------------ the job table alone
\* The operations on job_list taken by themselves: the main thread registers
\* and removes jobs between two prompts, the SIGCHLD handler marks the entry
\* its lookup (lines 358-363) found, and the drain runs before each prompt.
table_frame == << shell_is_interactive, tty_pgrp, procs, locals, members,
                  tty_lent, shell_fds, kids, line_vars >>

\* add_job(pgid, cmd, JOB_STATE_RUNNING) for a newly launched background job
\* (lines 720, 872); the group has no live entry yet
AddJob(pgid, strdup_ok) ==
  /\ pc = "readline"
  /\ next_jid <= MaxJid
  /\ find_job_slot_by_pgid(job_list, pgid) = -1
  /\ LET r == add_job(job_list, next_jid, pgid, CmdSingle, JOB_STATE_RUNNING, strdup_ok)
     IN  /\ job_list' = r.jl
         /\ next_jid' = r.nj
  /\ pc' = "loop"
  /\ UNCHANGED << printed, table_frame >>

\* remove_job_by_pgid(pgid) when a job brought to the foreground has finished
\* (wait_for_job, lines 279 and 286)
RemoveJob(pgid) ==
  /\ pc = "readline"
  /\ job_list' = remove_job_by_pgid(job_list, pgid)
  /\ pc' = "loop"
  /\ UNCHANGED << next_jid, printed, table_frame >>

\* handle_sigchld, lines 365-369: the job found for a terminated child
MarkExited(s) ==
  /\ Live(job_list[s])
  /\ job_list' = [job_list EXCEPT ![s].state = JOB_STATE_INVALID,
                                  ![s].notified = FALSE]
  /\ UNCHANGED << next_jid, printed, pc, table_frame >>

\* handle_sigchld, lines 370-376: the job found for a stopped child
MarkStopped(s) ==
  /\ Live(job_list[s])
  /\ job_list[s].state # JOB_STATE_STOPPED \/ ~job_list[s].notified
  /\ job_list' = [job_list EXCEPT ![s].state = JOB_STATE_STOPPED,
                                  ![s].notified = FALSE]
  /\ UNCHANGED << next_jid, printed, pc, table_frame >>

InitTable == Init /\ shell_is_interactive

NextTable ==
  \/ PromptDrain
  \/ \E g \in Pids, ok \in BOOLEAN : AddJob(g, ok)
  \/ \E g \in Pids : RemoveJob(g)
  \/ \E s \in Slots : MarkExited(s)
  \/ \E s \in Slots : MarkStopped(s)

TableSpec == InitTable /\ [][NextTable]_vars

\* an entry the handler marked as exited and the drain has not yet reported
DonePending(j) ==
  j.state = JOB_STATE_INVALID /\ j.command # NULL /\ ~j.notified

stmt_frame == << shell_is_interactive, tty_pgrp, printed, members, tty_lent,
                 shell_fds, kids, line_vars >>

AddJobLabels == {"add_job_118", "add_job_119", "add_job_120", "add_job_122",
                 "add_job_123", "add_job_125"}

\* execute_single_command, lines 703-720, and add_job, lines 110-116: the
\* parent's setpgid, then the call of add_job up to the slot it found
add_job_enter ==
  /\ pc = "s_parent" /\ background /\ shell_is_interactive
  /\ LET pr  == setpgid(procs, pid1, pid1)
         cpg == ParentChildPgid(shell_is_interactive, procs, pid1)
         slot == find_free_job_slot(job_list)
     IN  IF cpg <= 0 \/ slot = -1 THEN LaunchNothing(pr)
         ELSE /\ procs' = pr
              /\ child_pgid' = cpg
              /\ fg_slot' = slot
              /\ pc' = "add_job_118"
              /\ UNCHANGED << job_list, next_jid, members, tty_pgrp, tty_lent,
                              background, pid1, pid2, fg_job >>
  /\ UNCHANGED << shell_is_interactive, printed, shell_fds, kids, line_vars >>

\* one assignment of add_job: the table and the counter afterwards
add_job_stmt(label, jl, nj, slot, pgid, strdup_ok) ==
  CASE label = "add_job_118" ->
         [jl |-> [jl EXCEPT ![slot].jid = nj], nj |-> next_jid_incr(nj),
          to |-> "add_job_119"]
    [] label = "add_job_119" ->
         [jl |-> [jl EXCEPT ![slot].pgid = pgid], nj |-> nj, to |-> "add_job_120"]
    [] label = "add_job_120" ->
         [jl |-> [jl EXCEPT ![slot].state = JOB_STATE_RUNNING], nj |-> nj,
          to |-> "add_job_122"]
    [] label = "add_job_122" ->
         [jl |-> [jl EXCEPT ![slot].command =
                               IF strdup_ok THEN CmdSingle ELSE NULL],
          nj |-> nj, to |-> "add_job_123"]
    [] label = "add_job_123" ->
         [jl |-> [jl EXCEPT ![slot].notified = TRUE], nj |-> nj,
          to |-> "add_job_125"]
    [] label = "add_job_125" ->
         [jl |-> IF jl[slot].command = NULL
                 THEN [jl EXCEPT ![slot].state = JOB_STATE_INVALID] ELSE jl,
          nj |-> nj, to |-> "loop"]

\* the main thread executes the next assignment of add_job
add_job_step ==
  /\ pc \in AddJobLabels
  /\ \E strdup_ok \in BOOLEAN :
       LET r == add_job_stmt(pc, job_list, next_jid, fg_slot, child_pgid,
                             strdup_ok)
       IN  /\ job_list' = r.jl
           /\ next_jid' = r.nj
           /\ IF r.to = "loop" THEN Return
              ELSE /\ pc' = r.to
                   /\ UNCHANGED locals
  /\ UNCHANGED << procs, stmt_frame >>

InitStmt == Init /\ shell_is_interactive

NextStmt ==
  \/ PromptDrain
  \/ LaunchSingle(TRUE)
  \/ add_job_enter
  \/ add_job_step
  \/ handle_sigchld
  \/ \E p \in Pids : ChildStart(p)
  \/ \E p \in Pids : ChildExit(p)
  \/ \E g \in Pids : GroupStop(g)

StmtSpec == InitStmt /\ [][NextStmt]_vars

\* a slot whose fields agree: a Running or Stopped entry has its command text
Consistent(j) == Live(j) => j.command # NULL

\* C21: the SIGCHLD handler changes the table only while the main thread is
\* outside add_job, and the slots it finds and the slots it leaves have
\* state, command and notified in agreement.  (In StmtSpec the handler's are
\* the only steps that change job_list and leave pc alone.)
C21_HandlerOutsideMutation ==
  [][ (pc' = pc /\ job_list' # job_list)
      => /\ pc \notin AddJobLabels
         /\ \A s \in Slots : Consistent(job_list[s]) /\ Consistent(job_list'[s])
    ]_vars

\* the entry of the group of child p after the handler has processed the
\* status of p in the current state (slot: the entry registered for the group)
AfterStatus(p, slot) == HandlerStep(procs, job_list, p).jl[slot]

\* the handler processes the stop status of a child of a registered group:
\* the entry ends Stopped and unnotified
StopStatusMarksStopped ==
  \A p \in NewStops(procs) :
    LET slot == find_job_slot_by_pgid(job_list, procs[p].pgid) IN
    slot # -1 => /\ AfterStatus(p, slot).state = JOB_STATE_STOPPED
                 /\ ~AfterStatus(p, slot).notified

\* the handler processes the exit status of a child of a registered group:
\* the entry ends Done-pending
ExitStatusMarksDone ==
  \A p \in Zombies(procs) :
    LET slot == find_job_slot_by_pgid(job_list, procs[p].pgid) IN
    slot # -1 => DonePending(AfterStatus(p, slot))

\* C22: whenever handle_sigchld is about to process a status of a child whose
\* group is registered in the table, a stop status leaves the entry Stopped
\* with notified false, whatever the entry was, and an exit or kill status
\* leaves it Done-pending with notified false.
C22_ReaperMarksEntry ==
  shell_is_interactive => (StopStatusMarksStopped /\ ExitStatusMarksDone)

\* the process groups of the children with a status for the handler to collect
ReapedGroups == {procs[p].pgid : p \in Reportable(procs)}

\* C23: a run of handle_sigchld sets no entry to Running, changes no entry's
\* jid, pgid or command text, leaves the jid counter alone, neither fills an
\* INVALID slot nor clears one, and leaves untouched every entry whose pgid is
\* not the group of a child with a status to collect.
C23_HandlerOnlyDowngrades ==
  [][ handle_sigchld
      => /\ next_jid' = next_jid
         /\ \A s \in Slots :
              /\ job_list'[s].jid = job_list[s].jid
              /\ job_list'[s].pgid = job_list[s].pgid
              /\ job_list'[s].command = job_list[s].command
              /\ job_list'[s].state = JOB_STATE_RUNNING
                   => job_list[s].state = JOB_STATE_RUNNING
              /\ Live(job_list'[s]) => Live(job_list[s])
              /\ job_list'[s] # job_list[s]
                   => (Live(job_list[s]) /\ job_list[s].pgid \in ReapedGroups)
    ]_vars

\* at the prompt, after the drain, the handler has marked a job Stopped
C23_Witness ==
  /\ pc = "readline" /\ shell_is_interactive
  /\ \E s \in Slots : /\ job_list[s].state = JOB_STATE_STOPPED
                      /\ ~job_list[s].notified

\* an occupied slot: a Running or Stopped job, or an exited one whose command
\* text is still held
Entry(j) == Live(j) \/ j.command # NULL

\* the line the drain owes an entry that has not been notified
OwedLine(j) ==
  << (IF j.state = JOB_STATE_INVALID THEN "Done" ELSE "Stopped"),
     j.jid, j.command >>

\* C24: at the prompt-time drain of an interactive shell, the lines printed are
\* one per entry with notified false (Done for an exited entry, Stopped for a
\* stopped one) and none else; afterwards every entry left is notified, every
\* exited entry's slot is INVALID with no command, jid or pgid, every Running
\* or Stopped entry keeps jid, pgid, state and command; and draining again
\* prints nothing and changes nothing.
C24_DrainReportsOnce ==
  [][ (pc = "loop" /\ pc' = "readline" /\ shell_is_interactive)
      => LET owed == {s \in Slots : Entry(job_list[s]) /\ ~job_list[s].notified}
         IN  /\ Len(printed') = Cardinality(owed)
             /\ \A s \in owed : job_list[s].state # JOB_STATE_RUNNING
             /\ \A s \in owed : \E i \in 1..Len(printed') :
                                  printed'[i] = OwedLine(job_list[s])
             /\ \A s \in Slots :
                  /\ Entry(job_list'[s]) => job_list'[s].notified
                  /\ DonePending(job_list[s])
                       => /\ job_list'[s].state = JOB_STATE_INVALID
                          /\ job_list'[s].command = NULL
                          /\ job_list'[s].jid = 0
                          /\ job_list'[s].pgid = 0
                  /\ Live(job_list[s])
                       => /\ job_list'[s].jid = job_list[s].jid
                          /\ job_list'[s].pgid = job_list[s].pgid
                          /\ job_list'[s].state = job_list[s].state
                          /\ job_list'[s].command = job_list[s].command
             /\ check_jobs_status(job_list') = job_list'
             /\ DrainLines(job_list', 1) = << >>
    ]_vars

\* a drain has just printed a Done line and a Stopped line
C24_Witness ==
  /\ pc = "readline"
  /\ \E i, k \in 1..Len(printed) :
       printed[i][1] = "Done" /\ printed[k][1] = "Stopped"

\* C25: for the table and counter of any reachable state and any call
\* add_job(pgid, cmd, state): the call fails exactly when pgid <= 0 or every
\* slot holds a Running or Stopped entry; a failed call leaves the table as
\* it was; a successful one stores pgid and state in the slot it took, with
\* notified true for Running and false otherwise.
C25_AddJobFailsOnlyWhenFull ==
  \A pgid \in {0} \cup Pids :
    \A state \in {JOB_STATE_RUNNING, JOB_STATE_STOPPED} :
      \A strdup_ok \in BOOLEAN :
        LET r    == add_job(job_list, next_jid, pgid, CmdSingle, state, strdup_ok)
            slot == find_free_job_slot(job_list)
            full == \A s \in Slots : Live(job_list[s])
        IN  /\ (r.ret = -1) <=> (pgid <= 0 \/ full)
            /\ r.ret = -1 => r.jl = job_list
            /\ r.ret # -1 => /\ r.jl[slot].pgid = pgid
                             /\ r.jl[slot].state = state
                             /\ r.jl[slot].notified = (state = JOB_STATE_RUNNING)

\* C26: at the prompt of an interactive shell, "bg %n" on a Running job leaves
\* the table and the processes as they are and does not write the resume
\* line "[jid] cmd &"; on a Stopped job it sets the entry Running, continues
\* every process of the group and writes the resume line; with a jid of no
\* live job it writes the error and changes nothing.
C26_BgOnRunningIsNoOp ==
  (pc = "readline" /\ shell_is_interactive) =>
    \A n \in 1..MaxJid :
      LET r      == builtin_bg(job_list, procs, n)
          slot   == find_job_slot_by_jid(job_list, n)
          job    == job_list[slot]
          resume == <<"Resume", job.jid, job.command>>
          Has(l) == \E i \in 1..Len(r.out) : r.out[i] = l
      IN  IF slot = -1
          THEN /\ r.jl = job_list /\ r.pr = procs
               /\ r.out = << <<"NoSuchJob", n, NULL>> >>
          ELSE IF job.state = JOB_STATE_RUNNING
               THEN /\ r.jl = job_list /\ r.pr = procs
                    /\ ~Has(resume)
               ELSE /\ r.jl[slot].state = JOB_STATE_RUNNING
                    /\ r.pr = Continue(procs, job.pgid)
                    /\ Has(resume)

\* every process of group g has terminated (or none is left)
GroupGone(pr, g) ==
  \A p \in Pids : (Exists(pr, p) /\ pr[p].pgid = g) => pr[p].st = "zombie"

\* group g has a stopped process and none that runs
GroupStopped(pr, g) ==
  /\ \E p \in Pids : pr[p].st = "stop" /\ pr[p].pgid = g
  /\ \A p \in Pids : (Exists(pr, p) /\ pr[p].pgid = g)
                       => pr[p].st \in {"stop", "zombie"}

\* "fg %n" up to the wait: a live job gets the terminal and, if and only if it
\* was Stopped, a SIGCONT for its whole group; a jid of no live job changes
\* neither the table nor the terminal owner
FgHandsOver ==
  (pc = "readline" /\ shell_is_interactive) =>
    \A n \in 1..MaxJid :
      LET r    == builtin_fg(job_list, procs, tty_pgrp, n)
          slot == find_job_slot_by_jid(job_list, n)
      IN  IF slot = -1
          THEN r.slot = -1 /\ r.jl = job_list /\ r.tty = tty_pgrp /\ r.pr = procs
          ELSE /\ r.slot = slot
               /\ r.tty = job_list[slot].pgid
               /\ r.pr = IF job_list[slot].state = JOB_STATE_STOPPED
                         THEN Continue(procs, job_list[slot].pgid) ELSE procs

\* the wait of "fg %n" ends: the entry is gone if the job has terminated, and
\* is Stopped and unnotified if the job has stopped
FgWaitEnds ==
  (pc = "fg_wait" /\ pc' = "loop" /\ fg_slot # 0) =>
    LET g == job_list[fg_slot].pgid IN
    /\ GroupGone(procs, g) => ~Live(job_list'[fg_slot])
    /\ GroupStopped(procs, g)
         => /\ job_list'[fg_slot].state = JOB_STATE_STOPPED
            /\ ~job_list'[fg_slot].notified

\* C27: "fg %n" on a live job hands the terminal to the job's group, sends
\* SIGCONT to the group exactly if the job was Stopped, and waits; when the
\* wait ends the entry is removed if the job exited or was killed and is
\* Stopped with notified false if it stopped again; "fg" with a jid of no
\* live job changes neither the table nor the terminal owner.
C27_FgResumesAndWaits == [][ FgHandsOver /\ FgWaitEnds ]_vars

\* C28: for a pipeline execute_pipeline accepts, both children are launched;
\* the left child's standard output is the pipe's write end and the right
\* child's standard input its read end, whatever redirections the two
\* commands carry, with one warning for each redirection so ignored; the left
\* command's input file and the right command's output file are applied.
C28_PipeOwnsInnerStreams ==
  res.outcome = "pipeline" =>
    /\ res.child1.stdout = WRITE_END
    /\ res.child2.stdin = READ_END
    /\ res.child1.stdin = (IF res.cmd1.inputFile # NULL THEN res.cmd1.inputFile
                           ELSE Inherited.stdin)
    /\ res.child2.stdout = (IF res.cmd2.outputFile # NULL
                            THEN res.cmd2.outputFile ELSE Inherited.stdout)
    /\ Len(res.warnings) =
         (IF res.cmd1.outputFile # NULL THEN 1 ELSE 0)
         + (IF res.cmd2.inputFile # NULL THEN 1 ELSE 0)

\* a pipeline whose left command has an output redirection has been launched
C28_Witness ==
  /\ res.outcome = "pipeline"
  /\ res.cmd1.outputFile # NULL
  /\ res.child1.stdout = WRITE_END
  /\ res.warnings # << >>

\* C29: if, while the shell is in wait_for_job, the foreground job's group has
\* stopped or all its members have terminated, the wait eventually returns
\* and the shell reaches the next prompt, whichever of the handler's
\* waitpid(-1) and wait_for_job's waitpid(-pgid) collects the status.
C29_ForegroundWaitReturns ==
  ( /\ pc = "fg_wait"
    /\ \/ GroupStopped(procs, FgJob.pgid)
       \/ GroupGone(procs, FgJob.pgid) )
  ~> (pc = "readline")

\* C30: every child the shell has forked either runs the program it exec'ed
\* or has exited with EXIT_FAILURE, whichever call of its setup failed; none
\* is back in the code of the shell, and the shell has not terminated.
C30_ChildNeverRunsShellCode ==
  /\ \A p \in Pids : procs[p].st \in {"free", "pre", "run", "stop", "zombie"}
  /\ \A p \in Pids : procs[p].st \in {"run", "stop"} => kids[p].code = "none"
  /\ \A code \in {"single", "left", "right"}, joined \in BOOLEAN,
        fail \in ChildFailures :
       /\ child_path(code, joined, fail) \in {"exec", "EXIT_FAILURE"}
       /\ (~joined \/ fail \in {"open", "dup2", "execvp"}
                   \/ (fail = "dup2_pipe" /\ code # "single"))
            => child_path(code, joined, fail) = "EXIT_FAILURE"
  /\ pc # "exited"

\* in an interactive shell a right child that could not join the pipeline's
\* group has exited, still in the shell's group, while the left child runs
\* its program
C30_Witness ==
  /\ shell_is_interactive
  /\ \E p, q \in Pids :
       /\ procs[p].st = "zombie" /\ procs[p].pgid = cash_pgid
       /\ procs[q].st = "run" /\ kids[q].code = "none"

====
